---- MODULE Spec2Model ----
(***************************************************************************)
(* Model of the lit issue tracker: the issue store (src/lit.go) and the    *)
(* command handlers of the lit command (src/unnamed/part_003, the revision *)
(* of cmd/lit/lit.go that matches the API of src/lit.go).                  *)
(*                                                                         *)
(* Strings are sequences of byte values, so that prefix tests and the      *)
(* lexicographic order of Go strings are computed, not assumed.            *)
(* A node of the document tree is a record                                 *)
(*   [type, key, val, kids]   type \in {"branch","leaf","longleaf","text"} *)
(* A *dgrl.Branch pointer of the store is the position of the issue among  *)
(* the kids of the root (positions never change: the root only grows).     *)
(***************************************************************************)
EXTENDS Integers, Sequences, FiniteSets, TLC

VARIABLES
    file,       \* backing file: the top-level nodes of the tree it holds
    attach,     \* attachment directories: issue key -> set of file names
    issues,     \* Lit.issues: kids of the root of the in-memory tree
    issueIds,   \* Lit.issueIds
    issueMap,   \* Lit.issueMap: key -> position in issues
    pc,         \* position of the running command
    now,        \* clock read by Stamp, in seconds
    ed,         \* state of a running edit command (ids, scratch file, mtimes)
    stored,     \* number of Store calls of the last (or running) command
    out         \* what the last command or query returned

vars == <<file, attach, issues, issueIds, issueMap, pc, now, ed, stored, out>>

-----------------------------------------------------------------------------
(* Bounds *)

MaxIssues == 3      \* most top-level nodes in a tree
MaxSel == 3         \* most identifiers given on a command line
MaxCmds == 2        \* most mutating commands in a behaviour

-----------------------------------------------------------------------------
(* Strings *)

Empty == << >>

HasPrefix(s, p) ==
    /\ Len(p) <= Len(s)
    /\ \A i \in 1..Len(p) : s[i] = p[i]

\* Go's < on strings: bytewise lexicographic
StrLess(a, b) ==
    \E k \in 1..Len(b) :
        /\ Len(a) >= k - 1
        /\ \A j \in 1..(k - 1) : a[j] = b[j]
        /\ (Len(a) = k - 1 \/ a[k] < b[k])

StrLessEq(a, b) == a = b \/ StrLess(a, b)

\* keys of the issue skeleton, as bytes
kCreated == <<99, 114, 101, 97, 116, 101, 100>>                 \* "created"
kUpdated == <<117, 112, 100, 97, 116, 101, 100>>                \* "updated"
kClosed == <<99, 108, 111, 115, 101, 100>>                      \* "closed"
kSummary == <<115, 117, 109, 109, 97, 114, 121>>                \* "summary"
kTags == <<116, 97, 103, 115>>                                  \* "tags"
kPriority == <<112, 114, 105, 111, 114, 105, 116, 121>>         \* "priority"
kAssigned == <<97, 115, 115, 105, 103, 110, 101, 100>>          \* "assigned"
kDescription == <<100, 101, 115, 99, 114, 105, 112, 116, 105, 111, 110>> \* "description"
kComment == <<99, 111, 109, 109, 101, 110, 116>>                \* "comment"
kAttach == <<97, 116, 116, 97, 99, 104>>                        \* "attach"
kTag == <<116, 97, 103>>                                        \* "tag"

-----------------------------------------------------------------------------
(* Document tree nodes (github.com/ianremmler/dgrl, as used by lit) *)

NewLeaf(k, v) == [type |-> "leaf", key |-> k, val |-> v, kids |-> << >>]
NewLongLeaf(k, v) == [type |-> "longleaf", key |-> k, val |-> v, kids |-> << >>]
NewText(v) == [type |-> "text", key |-> Empty, val |-> v, kids |-> << >>]
NewBranch(k, ks) == [type |-> "branch", key |-> k, val |-> Empty, kids |-> ks]

\* k.(*dgrl.Leaf): leaves, long leaves and text nodes are all *dgrl.Leaf
IsLeaf(n) == n.type \in {"leaf", "longleaf", "text"}
\* k.(*dgrl.Branch)
IsBranch(n) == n.type = "branch"

\* Branch.Insert(node, idx) with a 0-based idx: false when idx is out of range
Insert(ks, n, idx) ==
    IF idx < 0 \/ idx > Len(ks)
    THEN [kids |-> ks, ok |-> FALSE]
    ELSE [kids |-> SubSeq(ks, 1, idx) \o <<n>> \o SubSeq(ks, idx + 1, Len(ks)),
          ok |-> TRUE]

-----------------------------------------------------------------------------
(* Field accessor *)

\* Stamp: RFC3339 UTC time and user name; one byte per second of the clock
Stamp(t) == <<48 + t>>

\* positions of the kids that are leaves whose key has the prefix key
LeafMatches(ks, key) ==
    {i \in 1..Len(ks) : IsLeaf(ks[i]) /\ HasPrefix(ks[i].key, key)}

Min(S) == CHOOSE x \in S : \A y \in S : x <= y
Max(S) == CHOOSE x \in S : \A y \in S : y <= x

\* Get(issue, key) for a non-nil issue
Get(issue, key) ==
    LET m == LeafMatches(issue.kids, key)
    IN  IF m = {} THEN [val |-> Empty, ok |-> FALSE]
        ELSE [val |-> issue.kids[Min(m)].val, ok |-> TRUE]

\* a Set that writes the last matching leaf instead of the first
SetLast(issue, key, val) ==
    LET ks == issue.kids
        m == LeafMatches(ks, key)
        plain == {i \in 1..Len(ks) : ks[i].type = "leaf"}
        idx == IF plain = {} THEN 0 ELSE Max(plain) - 1
        ins == Insert(ks, NewLeaf(key, val), idx + 1)
    IN  IF m # {}
        THEN [issue |-> [issue EXCEPT !.kids[Max(m)].val = val], ok |-> TRUE]
        ELSE [issue |-> [issue EXCEPT !.kids = ins.kids], ok |-> ins.ok]

\* Set(issue, key, val) for a non-nil issue: the issue afterwards and the result
Set(issue, key, val) ==
    LET ks == issue.kids
        m == LeafMatches(ks, key)
        \* idx: 0-based position of the last kid of LeafType, 0 if there is none
        plain == {i \in 1..Len(ks) : ks[i].type = "leaf"}
        idx == IF plain = {} THEN 0 ELSE Max(plain) - 1
        ins == Insert(ks, NewLeaf(key, val), idx + 1)
    IN  IF m # {}
        THEN [issue |-> [issue EXCEPT !.kids[Min(m)].val = val], ok |-> TRUE]
        ELSE [issue |-> [issue EXCEPT !.kids = ins.kids], ok |-> ins.ok]

-----------------------------------------------------------------------------
(* regexp.MatchString(pat, s) for patterns made of literal bytes, "." and  *)
(* "(": a pattern holding "(" (never closed here) does not compile.        *)

chDot == 46
chParen == 40

RegexpCompiles(pat) == \A i \in 1..Len(pat) : pat[i] # chParen

\* a match that takes every byte of the pattern for itself
MatchStringLiteral(pat, s) ==
    [ok |-> \E o \in 0..(Len(s) - Len(pat)) : \A i \in 1..Len(pat) : pat[i] = s[o + i],
     err |-> FALSE]

\* [ok, err]: ok when the pattern matches somewhere in s
MatchString(pat, s) ==
    IF ~RegexpCompiles(pat) THEN [ok |-> FALSE, err |-> TRUE]
    ELSE [ok |-> \E o \in 0..(Len(s) - Len(pat)) :
                     \A i \in 1..Len(pat) : pat[i] = chDot \/ pat[i] = s[o + i],
          err |-> FALSE]

-----------------------------------------------------------------------------
(* Issue store *)

Nil == 0

\* sort.Strings / sort.Stable: insertion of x into a sorted sequence, behind
\* every element it is not less than
RECURSIVE InsertString(_, _)
InsertString(s, x) ==
    IF s = << >> \/ ~StrLess(x, s[Len(s)]) THEN Append(s, x)
    ELSE Append(InsertString(SubSeq(s, 1, Len(s) - 1), x), s[Len(s)])

RECURSIVE SortStrings(_)
SortStrings(s) ==
    IF s = << >> THEN << >>
    ELSE InsertString(SortStrings(SubSeq(s, 1, Len(s) - 1)), s[Len(s)])

\* an index in the order of the tree, never sorted
IndexIdsUnsorted(tree) ==
    [i \in 1..Len(tree) |-> IF IsBranch(tree[i]) THEN tree[i].key ELSE Empty]

\* indexIssues: one slot per kid of the root, filled for the branches only
IndexIds(tree) ==
    SortStrings([i \in 1..Len(tree) |->
                    IF IsBranch(tree[i]) THEN tree[i].key ELSE Empty])

\* the map keeps the last branch of each key
IndexMap(tree) ==
    LET keys == {tree[i].key : i \in {j \in 1..Len(tree) : IsBranch(tree[j])}}
    IN  [k \in keys |->
            Max({i \in 1..Len(tree) : IsBranch(tree[i]) /\ tree[i].key = k})]

\* sort.SearchStrings(a, x): binary search for the first index (0-based) with
\* a[index] >= x, Len(a) if there is none
RECURSIVE Search(_, _, _, _)
Search(a, x, i, j) ==
    IF i < j
    THEN LET h == (i + j) \div 2
         IN  IF ~StrLessEq(x, a[h + 1]) THEN Search(a, x, h + 1, j)
             ELSE Search(a, x, i, h)
    ELSE i

SearchStrings(a, x) == Search(a, x, 0, Len(a))

\* Lit.Issue with the index given: a position in the tree, or Nil
IssueIn(ids, map, id) ==
    LET idx == SearchStrings(ids, id)
    IN  IF idx < Len(ids) /\ HasPrefix(ids[idx + 1], id)
        THEN IF ids[idx + 1] \in DOMAIN map THEN map[ids[idx + 1]] ELSE Nil
        ELSE Nil

Issue(id) == IssueIn(issueIds, issueMap, id)

\* Lit.IssueIds
RECURSIVE IssueIdsOf(_)
IssueIdsOf(tree) ==
    IF tree = << >> THEN << >>
    ELSE LET rest == IssueIdsOf(SubSeq(tree, 1, Len(tree) - 1))
             k == tree[Len(tree)]
         IN  IF IsBranch(k) THEN Append(rest, k.key) ELSE rest

IssueIds == IssueIdsOf(issues)

\* Lit.Attachments: the names in the directory of the issue, none without one
Attachments(issue) ==
    IF issue.key \in DOMAIN attach THEN attach[issue.key] ELSE {}

\* a search of the comments that looks at their text only
commentContainsBody(issue, val) ==
    \E i \in 1..Len(issue.kids) :
        /\ IsBranch(issue.kids[i])
        /\ \E j \in 1..Len(issue.kids[i].kids) :
                /\ IsLeaf(issue.kids[i].kids[j])
                /\ MatchString(val, issue.kids[i].kids[j].val).ok

commentContains(issue, val) ==
    \E i \in 1..Len(issue.kids) :
        /\ IsBranch(issue.kids[i])
        /\ \/ MatchString(val, issue.kids[i].key).ok
           \/ \E j \in 1..Len(issue.kids[i].kids) :
                  /\ IsLeaf(issue.kids[i].kids[j])
                  /\ MatchString(val, issue.kids[i].kids[j].val).ok

attachContains(issue, val) ==
    IF val = Empty THEN Attachments(issue) # {}
    ELSE \E f \in Attachments(issue) : MatchString(val, f).ok

\* contains without the rule for two empty strings
containsEmptyInEmpty(issue, key, val) ==
    IF key = kComment THEN commentContains(issue, val)
    ELSE IF key = kAttach THEN attachContains(issue, val)
    ELSE Get(issue, key).ok /\ MatchString(val, Get(issue, key).val).ok

contains(issue, key, val) ==
    IF key = kComment THEN commentContains(issue, val)
    ELSE IF key = kAttach THEN attachContains(issue, val)
    ELSE LET g == Get(issue, key)
         IN  /\ g.ok
             /\ ~(val = Empty /\ g.val = Empty)
             /\ MatchString(val, g.val).ok

\* Match that takes every issue when asked for the issues that do not match
RECURSIVE MatchInAllWithout(_, _, _, _)
MatchInAllWithout(tree, key, val, doesMatch) ==
    IF tree = << >> THEN << >>
    ELSE LET rest == MatchInAllWithout(SubSeq(tree, 1, Len(tree) - 1), key, val, doesMatch)
             k == tree[Len(tree)]
         IN  IF IsBranch(k) /\ (contains(k, key, val) \/ ~doesMatch)
             THEN Append(rest, k.key) ELSE rest

\* Match that puts each match in front of the earlier ones
RECURSIVE MatchInBackwards(_, _, _, _)
MatchInBackwards(tree, key, val, doesMatch) ==
    IF tree = << >> THEN << >>
    ELSE LET rest == MatchInBackwards(SubSeq(tree, 1, Len(tree) - 1), key, val, doesMatch)
             k == tree[Len(tree)]
         IN  IF IsBranch(k) /\ (contains(k, key, val) = doesMatch)
             THEN <<k.key>> \o rest ELSE rest

\* Lit.Match
RECURSIVE MatchIn(_, _, _, _)
MatchIn(tree, key, val, doesMatch) ==
    IF tree = << >> THEN << >>
    ELSE LET rest == MatchIn(SubSeq(tree, 1, Len(tree) - 1), key, val, doesMatch)
             k == tree[Len(tree)]
         IN  IF IsBranch(k) /\ (contains(k, key, val) = doesMatch)
             THEN Append(rest, k.key) ELSE rest

Match(key, val, doesMatch) == MatchIn(issues, key, val, doesMatch)

\* a comparison that looks for any comment on the asked side of time
commentCompareAny(issue, time, isLess) ==
    LET cs == {i \in 1..Len(issue.kids) : IsBranch(issue.kids[i])}
    IN  IF isLess THEN \E c \in cs : StrLess(issue.kids[c].key, time)
        ELSE \A c \in cs : StrLessEq(issue.kids[c].key, time)

commentCompare(issue, time, isLess) ==
    LET cs == {i \in 1..Len(issue.kids) : IsBranch(issue.kids[i])}
    IN  IF cs = {} THEN ~isLess
        ELSE IF isLess THEN StrLess(issue.kids[Min(cs)].key, time)
        ELSE StrLessEq(issue.kids[Min(cs)].key, time)

\* strconv.Atoi for one-digit decimal strings; anything else here is an error
Atoi(s) ==
    IF Len(s) = 1 /\ s[1] \in 48..57 THEN [num |-> s[1] - 48, err |-> FALSE]
    ELSE [num |-> 0, err |-> TRUE]

\* a comparison that answers "not less" by false when val is no number
attachCompareFalse(issue, val, isLess) ==
    LET a == Atoi(val)
        numAtt == Cardinality(Attachments(issue))
    IN  IF a.err THEN FALSE
        ELSE IF isLess THEN numAtt < a.num
        ELSE numAtt <= a.num

attachCompare(issue, val, isLess) ==
    LET a == Atoi(val)
        numAtt == Cardinality(Attachments(issue))
    IN  IF a.err THEN ~isLess
        ELSE IF isLess THEN numAtt < a.num
        ELSE numAtt <= a.num

\* compare that ranks an unset field above every value
compareUnsetMax(issue, key, val, isLess) ==
    IF key = kComment THEN commentCompare(issue, val, isLess)
    ELSE IF key = kAttach THEN attachCompare(issue, val, isLess)
    ELSE LET g == Get(issue, key)
         IN  IF ~g.ok \/ g.val = Empty THEN FALSE
             ELSE IF isLess THEN StrLess(g.val, val)
             ELSE StrLessEq(g.val, val)

\* compare whose greater direction takes the equal value too
compareGreaterEq(issue, key, val, isLess) ==
    IF key = kComment THEN commentCompare(issue, val, isLess)
    ELSE IF key = kAttach THEN attachCompare(issue, val, isLess)
    ELSE LET g == Get(issue, key)
         IN  IF ~g.ok \/ g.val = Empty THEN ~isLess
             ELSE StrLess(g.val, val)

compare(issue, key, val, isLess) ==
    IF key = kComment THEN commentCompare(issue, val, isLess)
    ELSE IF key = kAttach THEN attachCompare(issue, val, isLess)
    ELSE LET g == Get(issue, key)
         IN  IF ~g.ok \/ g.val = Empty THEN ~isLess
             ELSE IF isLess THEN StrLess(g.val, val)
             ELSE StrLessEq(g.val, val)

\* Compare without the early return for an empty val
RECURSIVE CompareInEmpty(_, _, _, _)
CompareInEmpty(tree, key, val, isLess) ==
    IF tree = << >> THEN << >>
    ELSE LET rest == CompareInEmpty(SubSeq(tree, 1, Len(tree) - 1), key, val, isLess)
             k == tree[Len(tree)]
         IN  IF IsBranch(k) /\ (compare(k, key, val, isLess) = isLess)
             THEN Append(rest, k.key) ELSE rest

\* Lit.Compare (a nil result is the empty list)
RECURSIVE CompareIn(_, _, _, _)
CompareIn(tree, key, val, isLess) ==
    IF val = Empty \/ tree = << >> THEN << >>
    ELSE LET rest == CompareIn(SubSeq(tree, 1, Len(tree) - 1), key, val, isLess)
             k == tree[Len(tree)]
         IN  IF IsBranch(k) /\ (compare(k, key, val, isLess) = isLess)
             THEN Append(rest, k.key) ELSE rest

Compare(key, val, isLess) == CompareIn(issues, key, val, isLess)

\* the sort key Lit.Sort resolves for one identifier
SortVal(id, key) ==
    LET p == Issue(id)
    IN  IF p = Nil THEN Empty
        ELSE IF Get(issues[p], key).ok THEN Get(issues[p], key).val
        ELSE Empty

\* Less with <= for <
sorterLessOrEqual(a, b) == StrLessEq(a.val, b.val)

\* Less on the identifiers instead of the values
sorterLessById(a, b) == StrLess(a.id, b.id)

\* sorter.Less on two elements [id, val]; sort.Reverse swaps the arguments
sorterLess(a, b) == StrLess(a.val, b.val)

\* descending sort that forgets sort.Reverse
LessNoReverse(a, b, doAscend) == sorterLess(a, b)

Less(a, b, doAscend) == IF doAscend THEN sorterLess(a, b) ELSE sorterLess(b, a)

\* sort.Stable: x moves left past every element it is less than
RECURSIVE InsertStable(_, _, _)
InsertStable(s, x, doAscend) ==
    IF s = << >> \/ ~Less(x, s[Len(s)], doAscend) THEN Append(s, x)
    ELSE Append(InsertStable(SubSeq(s, 1, Len(s) - 1), x, doAscend), s[Len(s)])

RECURSIVE Stable(_, _)
Stable(s, doAscend) ==
    IF s = << >> THEN << >>
    ELSE InsertStable(Stable(SubSeq(s, 1, Len(s) - 1), doAscend), s[Len(s)], doAscend)

\* Lit.Sort: the list ids afterwards
Sort(ids, key, doAscend) ==
    LET srt == [i \in 1..Len(ids) |-> [id |-> ids[i], val |-> SortVal(ids[i], key)]]
        res == Stable(srt, doAscend)
    IN  [i \in 1..Len(ids) |-> res[i].id]

-----------------------------------------------------------------------------
(* Values the commands and queries are given *)

idA == <<49, 49>>       \* "11"
idB == <<49, 50>>       \* "12"
idC == <<50, 49>>       \* "21"
Ids == {idA, idB, idC}

v1 == <<49>>            \* "1"
v2 == <<50>>            \* "2"
v3 == <<51>>            \* "3"
v10 == <<49, 48>>       \* "10"

\* identifiers and identifier prefixes a caller may pass to Issue
Prefixes == {Empty, <<49>>, <<50>>, <<51>>} \cup Ids

NoOut == [op |-> "none", key |-> Empty, val |-> Empty, flag |-> FALSE,
          ids |-> << >>, res |-> << >>, err |-> ""]

\* no edit command is running
NoEdit == [ids |-> << >>, buf |-> << >>, origMod |-> 0, newMod |-> 0,
           exit |-> 0, parses |-> TRUE, didUpdate |-> FALSE, trace |-> << >>]

NoDirs == [k \in {} |-> {}]

\* sequences over S of length 0..n
SeqsUpTo(S, n) == UNION {[1..m -> S] : m \in 0..n}

-----------------------------------------------------------------------------
(* Queries on a loaded store: the store is what Load builds from a backing *)
(* file; each action calls one function of the store and keeps its result. *)

Comment(stamp, text) == NewBranch(stamp, <<NewText(text)>>)

\* top-level nodes of the backing files the queries run against
QueryNodes ==
    { NewText(v1),
      NewBranch(idA, <<NewLeaf(kPriority, v1)>>),
      NewBranch(idA, <<NewLeaf(kPriority, Empty), Comment(v2, v1)>>),
      NewBranch(idB, <<NewLeaf(kPriority, v3)>>),
      NewBranch(idB, <<NewLeaf(kSummary, v1), Comment(v1, v3), Comment(v3, v2)>>),
      NewBranch(idC, <<NewLeaf(kPriority, v2)>>),
      NewBranch(idC, <<NewLeaf(<<112>>, v10), NewLeaf(kPriority, v1)>>) }

\* no two issues of the tree have the same identifier
UniqueIds(tree) ==
    \A i, j \in 1..Len(tree) :
        (i # j /\ IsBranch(tree[i]) /\ IsBranch(tree[j])) => tree[i].key # tree[j].key

\* the backing files: issues with identifiers of their own, and text lines
QueryFiles == {f \in SeqsUpTo(QueryNodes, MaxIssues) : f # << >> /\ UniqueIds(f)}

QueryDirs == {NoDirs, [k \in {idA, idC} |-> IF k = idA THEN {v1} ELSE {v1, v2}]}

QueryKeys == {kPriority, <<112>>, kComment, kAttach}
QueryVals == {Empty, v1, v2, <<chDot>>, <<chParen>>}

QInit ==
    /\ file \in QueryFiles
    /\ attach \in QueryDirs
    /\ issues = file
    /\ issueIds = IndexIds(file)
    /\ issueMap = IndexMap(file)
    /\ pc = "loaded"
    /\ now = 0
    /\ ed = NoEdit
    /\ stored = 0
    /\ out = NoOut

\* a query is the one call of its command: the process ends behind it
QFrame ==
    /\ pc' = "done"
    /\ UNCHANGED <<file, attach, issues, issueIds, issueMap, now, ed, stored>>

QIssue(p) ==
    /\ pc = "loaded"
    /\ out' = [NoOut EXCEPT !.op = "issue", !.key = p, !.res = Issue(p)]
    /\ QFrame

QMatch(key, val, doesMatch) ==
    /\ pc = "loaded"
    /\ out' = [NoOut EXCEPT !.op = "match", !.key = key, !.val = val,
                            !.flag = doesMatch, !.res = Match(key, val, doesMatch)]
    /\ QFrame

QCompare(key, val, isLess) ==
    /\ pc = "loaded"
    /\ out' = [NoOut EXCEPT !.op = "compare", !.key = key, !.val = val,
                            !.flag = isLess, !.res = Compare(key, val, isLess)]
    /\ QFrame

QSort(ids, key, doAscend) ==
    /\ pc = "loaded"
    /\ out' = [NoOut EXCEPT !.op = "sort", !.key = key, !.flag = doAscend,
                            !.ids = ids, !.res = Sort(ids, key, doAscend)]
    /\ QFrame

QNext ==
    \/ \E p \in Prefixes : QIssue(p)
    \/ \E key \in QueryKeys, val \in QueryVals, b \in BOOLEAN : QMatch(key, val, b)
    \/ \E key \in QueryKeys, val \in QueryVals, b \in BOOLEAN : QCompare(key, val, b)
    \/ \E ids \in SeqsUpTo(Ids, MaxSel), b \in BOOLEAN : QSort(ids, kPriority, b)

SpecQuery == QInit /\ [][QNext]_vars

-----------------------------------------------------------------------------
(* Properties of the queries *)

Range(s) == {s[i] : i \in 1..Len(s)}

Count(s, x) == Cardinality({i \in 1..Len(s) : s[i] = x})

Reverse(s) == [i \in 1..Len(s) |-> s[Len(s) + 1 - i]]

\* the issues of the in-memory tree
IssuePos == {i \in 1..Len(issues) : IsBranch(issues[i])}

Ordinary(key) == key # kComment /\ key # kAttach

Unset(key) == {i \in IssuePos : ~Get(issues[i], key).ok \/ Get(issues[i], key).val = Empty}

\* C2 as claimed: for an ordinary field and a non-empty value, an issue whose
\* leaf is missing or empty is returned by Compare(f, v, greater) and is not
\* returned by Compare(f, v, less).
C2_UnsetIsMaximal ==
    (out.op = "compare" /\ Ordinary(out.key) /\ out.val # Empty) =>
        \A i \in Unset(out.key) :
            IF out.flag THEN issues[i].key \notin Range(out.res)
            ELSE issues[i].key \in Range(out.res)

\* C2 amended: for an ordinary field and a non-empty value, an issue whose
\* leaf is missing or empty is returned neither by Compare(f, v, less) nor by
\* Compare(f, v, greater).
C2_UnsetNeverCompares ==
    (out.op = "compare" /\ Ordinary(out.key) /\ out.val # Empty) =>
        \A i \in Unset(out.key) :
            /\ issues[i].key \notin Range(out.res)
            /\ issues[i].key \notin Range(Compare(out.key, out.val, ~out.flag))

C2_Witness ==
    /\ out.op = "compare" /\ Ordinary(out.key) /\ out.val # Empty
    /\ ~out.flag
    /\ Unset(out.key) # {}
    /\ out.res # << >>

\* C4 as claimed: Issue(p) is non-nil exactly when some identifier of the
\* indexed tree has p as a prefix, and then it is the issue with the smallest
\* such identifier.
C4_IssueFirstPrefix ==
    out.op = "issue" =>
        LET cands == {k \in Range(IssueIds) : HasPrefix(k, out.key)}
        IN  /\ (out.res # Nil) <=> (cands # {})
            /\ out.res # Nil =>
                   /\ issues[out.res].key \in cands
                   /\ \A k \in cands : StrLessEq(issues[out.res].key, k)

\* the sort keys of the identifiers of a list, in order
Keys(ids, key) == [i \in 1..Len(ids) |-> SortVal(ids[i], key)]

\* the identifiers of a list whose sort key is v, in order
WithKey(ids, key, v) ==
    LET Test(x) == SortVal(x, key) = v
    IN  SelectSeq(ids, Test)

\* C5: Sort is stable, ascending and descending: the identifiers with one and
\* the same sort key are in the output in the order they had in the input.
C5_SortStable ==
    out.op = "sort" =>
        \A v \in Range(Keys(out.ids, out.key)) :
            WithKey(out.res, out.key, v) = WithKey(out.ids, out.key, v)

C5_Witness ==
    /\ out.op = "sort" /\ ~out.flag
    /\ \E i, j \in 1..Len(out.ids) :
           /\ i < j
           /\ out.ids[i] # out.ids[j]
           /\ SortVal(out.ids[i], out.key) = SortVal(out.ids[j], out.key)
           /\ SortVal(out.ids[i], out.key) # Empty
    /\ out.res # out.ids

\* C6 as claimed: the descending sort of a list is the exact reverse of its
\* ascending sort.
C6_DescendIsReverse ==
    (out.op = "sort" /\ ~out.flag) =>
        out.res = Reverse(Sort(out.ids, out.key, TRUE))

DistinctKeys(ids, key) ==
    \A i, j \in 1..Len(ids) : i # j => SortVal(ids[i], key) # SortVal(ids[j], key)

\* C6 amended: the descending sort of a list is the exact reverse of its
\* ascending sort when no two positions of the list have the same sort key.
C6_DescendIsReverseDistinct ==
    (out.op = "sort" /\ ~out.flag /\ DistinctKeys(out.ids, out.key)) =>
        out.res = Reverse(Sort(out.ids, out.key, TRUE))

C6_Witness ==
    /\ out.op = "sort" /\ ~out.flag /\ DistinctKeys(out.ids, out.key)
    /\ Len(out.ids) = 3
    /\ out.res # out.ids
    /\ out.res # Reverse(out.ids)

\* the store of the scenario: issues A, B, C with priorities "1", "3", "2"
Scenario132 ==
    issues = << NewBranch(idA, <<NewLeaf(kPriority, v1)>>),
                NewBranch(idB, <<NewLeaf(kPriority, v3)>>),
                NewBranch(idC, <<NewLeaf(kPriority, v2)>>) >>

\* C7: Sort leaves a permutation of its input whose sort keys (the empty
\* string for an identifier without issue or without the field) ascend, or
\* descend for a descending sort; priorities "1","3","2" of A,B,C give
\* [A,C,B] ascending and [B,C,A] descending.
C7_SortOrders ==
    out.op = "sort" =>
        /\ Len(out.res) = Len(out.ids)
        /\ \A k \in Range(out.ids) \cup Range(out.res) :
               Count(out.res, k) = Count(out.ids, k)
        /\ \A i, j \in 1..Len(out.res) :
               i < j => IF out.flag
                        THEN StrLessEq(SortVal(out.res[i], out.key), SortVal(out.res[j], out.key))
                        ELSE StrLessEq(SortVal(out.res[j], out.key), SortVal(out.res[i], out.key))
        /\ (Scenario132 /\ out.ids = <<idA, idB, idC>> /\ out.key = kPriority) =>
               out.res = IF out.flag THEN <<idA, idC, idB>> ELSE <<idB, idC, idA>>

C7_Witness ==
    /\ out.op = "sort" /\ out.flag
    /\ Scenario132 /\ out.ids = <<idA, idB, idC>>
    /\ out.res = <<idA, idC, idB>>

-----------------------------------------------------------------------------
(* Tag set codec *)

chSpace == 32

\* strings.Fields: the maximal runs of non-space bytes
RECURSIVE Fields(_)
Fields(s) ==
    IF s = << >> THEN << >>
    ELSE IF s[1] = chSpace THEN Fields(Tail(s))
    ELSE LET ends == {i \in 1..Len(s) : s[i] = chSpace}
             n == IF ends = {} THEN Len(s) + 1 ELSE Min(ends)
         IN  <<SubSeq(s, 1, n - 1)>> \o Fields(SubSeq(s, n, Len(s)))

\* strings.Join
RECURSIVE Join(_, _)
Join(ss, sep) ==
    IF ss = << >> THEN << >>
    ELSE IF Len(ss) = 1 THEN ss[1]
    ELSE ss[1] \o sep \o Join(Tail(ss), sep)

\* strings.TrimSpace
RECURSIVE TrimSpace(_)
TrimSpace(s) ==
    IF s = << >> THEN s
    ELSE IF s[1] = chSpace THEN TrimSpace(Tail(s))
    ELSE IF s[Len(s)] = chSpace THEN TrimSpace(SubSeq(s, 1, Len(s) - 1))
    ELSE s

\* a split that keeps the first tag only
tagStrToSetFirst(tagStr) ==
    IF Fields(tagStr) = << >> THEN {} ELSE {Fields(tagStr)[1]}

tagStrToSet(tagStr) == {Fields(tagStr)[i] : i \in 1..Len(Fields(tagStr))}

\* the elements of a set of strings in any order (iteration over a Go map)
RECURSIVE SetToSeq(_)
SetToSeq(S) ==
    IF S = {} THEN << >>
    ELSE LET x == CHOOSE x \in S : TRUE
         IN  <<x>> \o SetToSeq(S \ {x})

\* a serialization that does not trim
setToTagStrUntrimmed(set) ==
    LET tags == [i \in 1..Cardinality(set) |-> Empty] \o SetToSeq(set)
    IN  Join(SortStrings(tags), <<chSpace>>)

\* setToTagStr: make([]string, len(set)) leaves len(set) empty strings in
\* front of the appended tags; they sort first and are trimmed away
setToTagStr(set) ==
    LET tags == [i \in 1..Cardinality(set) |-> Empty] \o SetToSeq(set)
    IN  TrimSpace(Join(SortStrings(tags), <<chSpace>>))

ModifyTag(issue, tag, doAdd) ==
    LET tagSet == tagStrToSet(Get(issue, kTag).val)
    IN  Set(issue, kTag,
            setToTagStr(IF doAdd THEN tagSet \cup {tag} ELSE tagSet \ {tag}))

-----------------------------------------------------------------------------
(* Commands of the lit program. Every command is a process of its own: it  *)
(* builds a store, loads the backing file, works on the tree in memory and *)
(* stores it. The variables of the store keep the state the process ended  *)
(* in until the next command starts.                                       *)

MaxArgs == 2        \* most identifiers in the selection of a command

NoMap == [k \in {} |-> Nil]

\* the keys of the issues of a tree
KeysOf(tree) == {tree[i].key : i \in {j \in 1..Len(tree) : IsBranch(tree[j])}}

\* sequences of n different elements of S
Fresh(S, n) == {q \in [1..n -> S] : \A i, j \in 1..n : i # j => q[i] # q[j]}

\* a selection as specIds reads it from the arguments
Sel(kind, key, val, ids) == [kind |-> kind, key |-> key, val |-> val, ids |-> ids]

\* identifiers and prefixes given on the command line
SelArgs == {<<49>>, idA, idB}

SelSpecs ==
    {Sel("all", Empty, Empty, << >>), Sel("open", Empty, Empty, << >>)}
    \cup {Sel("ids", Empty, Empty, ids) :
                ids \in UNION {Fresh(SelArgs, n) : n \in 0..MaxArgs}}

specIds(tree, sel) ==
    CASE sel.kind = "all" -> IssueIdsOf(tree)
      [] sel.kind = "open" -> MatchIn(tree, kClosed, Empty, FALSE)
      [] sel.kind = "closed" -> MatchIn(tree, kClosed, Empty, TRUE)
      [] sel.kind = "with" -> MatchIn(tree, sel.key, sel.val, TRUE)
      [] sel.kind = "without" -> MatchIn(tree, sel.key, sel.val, FALSE)
      [] sel.kind = "less" -> CompareIn(tree, sel.key, sel.val, TRUE)
      [] sel.kind = "greater" -> CompareIn(tree, sel.key, sel.val, FALSE)
      [] OTHER -> sel.ids

\* Lit.NewIssues: the tree with the new issues appended
RECURSIVE NewIssues(_, _, _)
NewIssues(tree, newIds, stamp) ==
    IF newIds = << >> THEN tree
    ELSE NewIssues(
            Append(tree, NewBranch(Head(newIds),
                << NewLeaf(kCreated, stamp), NewLeaf(kUpdated, stamp),
                   NewLeaf(kClosed, Empty), NewLeaf(kSummary, Empty),
                   NewLeaf(kTags, Empty), NewLeaf(kPriority, Empty),
                   NewLeaf(kAssigned, Empty), NewLongLeaf(kDescription, Empty) >>)),
            Tail(newIds), stamp)

\* the change a bulk command makes to one issue, before it stamps it
Change(issue, op) ==
    CASE op.kind = "set" -> Set(issue, op.key, op.val)
      [] op.kind = "tag" -> ModifyTag(issue, op.val, op.flag)
      [] op.kind = "close" -> Set(issue, kClosed, op.val)

\* body of the loop of setCmd, tagCmd and closeCmd for one identifier
BulkStep(tree, ids, map, id, op, stamp) ==
    LET p == IssueIn(ids, map, id)
    IN  IF p = Nil THEN tree
        ELSE LET r == Change(tree[p], op)
             IN  [tree EXCEPT ![p] = IF r.ok THEN Set(r.issue, kUpdated, stamp).issue
                                     ELSE r.issue]

\* a loop that ends at the first identifier that does not resolve
RECURSIVE BulkEachAbort(_, _, _, _, _, _)
BulkEachAbort(tree, ids, map, sel, op, stamp) ==
    IF sel = << >> \/ IssueIn(ids, map, Head(sel)) = Nil THEN tree
    ELSE BulkEachAbort(BulkStep(tree, ids, map, Head(sel), op, stamp),
                       ids, map, Tail(sel), op, stamp)

RECURSIVE BulkEach(_, _, _, _, _, _)
BulkEach(tree, ids, map, sel, op, stamp) ==
    IF sel = << >> THEN tree
    ELSE BulkEach(BulkStep(tree, ids, map, Head(sel), op, stamp),
                  ids, map, Tail(sel), op, stamp)

Init ==
    /\ file = << >>
    /\ attach = NoDirs
    /\ issues = << >>
    /\ issueIds = << >>
    /\ issueMap = NoMap
    /\ pc = "idle"
    /\ now = 0
    /\ ed = NoEdit
    /\ stored = 0
    /\ out = NoOut

\* the process starts: the clock has moved on
Start ==
    /\ pc = "idle"
    /\ now < MaxCmds
    /\ now' = now + 1
    /\ UNCHANGED attach

\* the process ends with the tree t in memory, stored or not
Finish(t, doStore, o) ==
    /\ issues' = t
    /\ issueIds' = IF o.op = "new" THEN IndexIds(t) ELSE IndexIds(file)
    /\ issueMap' = IF o.op = "new" THEN IndexMap(t) ELSE IndexMap(file)
    /\ file' = IF doStore THEN t ELSE file
    /\ stored' = IF doStore THEN 1 ELSE 0
    /\ out' = o
    /\ pc' = "idle"
    /\ ed' = NoEdit

NewCmd(newIds) ==
    /\ Start
    /\ Len(file) + Len(newIds) <= MaxIssues
    /\ Finish(NewIssues(file, newIds, Stamp(now')), TRUE,
              [NoOut EXCEPT !.op = "new", !.res = newIds])

\* setCmd, tagCmd, closeCmd: load, change the selected issues, store
BulkCmd(name, sel, op) ==
    /\ Start
    /\ Finish(BulkEach(file, IndexIds(file), IndexMap(file), specIds(file, sel),
                       op, Stamp(now')),
              TRUE, [NoOut EXCEPT !.op = name, !.ids = specIds(file, sel),
                                  !.key = op.key, !.val = op.val, !.flag = op.flag])

SetCmd(key, val, sel) ==
    BulkCmd("set", sel, [kind |-> "set", key |-> key, val |-> val, flag |-> FALSE])

TagCmd(doAdd, tag, sel) ==
    BulkCmd("tag", sel, [kind |-> "tag", key |-> Empty, val |-> tag, flag |-> doAdd])

CloseCmd(cmd, sel) ==
    BulkCmd(cmd, sel, [kind |-> "close", key |-> Empty,
                       val |-> IF cmd = "close" THEN Stamp(now') ELSE Empty,
                       flag |-> FALSE])

CommentCmd(id, text) ==
    /\ Start
    /\ LET p == IssueIn(IndexIds(file), IndexMap(file), id)
           withComment == [file[p] EXCEPT !.kids = Append(@, Comment(Stamp(now'), text))]
       IN  IF p = Nil
           THEN Finish(file, FALSE, [NoOut EXCEPT !.op = "comment", !.err = "finding"])
           ELSE Finish([file EXCEPT ![p] = Set(withComment, kUpdated, Stamp(now')).issue],
                       TRUE, [NoOut EXCEPT !.op = "comment"])

-----------------------------------------------------------------------------
(* The edit command: collect, editor, checks, merge, commit *)

\* a Collect step that stamps the issue before it writes it
ScratchStamped(issue) == Set(issue, kUpdated, Stamp(now + 1)).issue

\* toEdit.Append(issue): the issue goes to the scratch file as it is in memory
Scratch(issue) == issue

\* the issues the selection resolves to, in selection order (toEdit)
RECURSIVE Collect(_, _, _, _)
Collect(tree, ids, map, sel) ==
    IF sel = << >> THEN << >>
    ELSE LET p == IssueIn(ids, map, Head(sel))
         IN  (IF p = Nil THEN << >> ELSE <<Scratch(tree[p])>>) \o Collect(tree, ids, map, Tail(sel))

EditStart(sel) ==
    /\ Start
    /\ issues' = file
    /\ issueIds' = IndexIds(file)
    /\ issueMap' = IndexMap(file)
    /\ ed' = [NoEdit EXCEPT
                !.ids = specIds(file, sel),
                !.buf = Collect(file, IndexIds(file), IndexMap(file), specIds(file, sel)),
                !.origMod = now', !.newMod = now']
    /\ pc' = "editor"
    /\ stored' = 0
    /\ out' = [NoOut EXCEPT !.op = "edit"]
    /\ UNCHANGED file

\* what the user may do to one issue in the editor
BranchEdits(b) ==
    {[b EXCEPT !.key = k] : k \in {b.key \o <<49>>} \cup (Ids \ {b.key})}
    \cup { Set(b, kPriority, v2).issue,
           [b EXCEPT !.kids = SelectSeq(@, LAMBDA n : ~(IsLeaf(n) /\ HasPrefix(n.key, kUpdated)))],
           [b EXCEPT !.kids = << >>],
           [b EXCEPT !.kids = Append(@, Comment(v1, v1))] }

\* the scratch files one change away
OneEdit(buf) ==
    UNION {{[buf EXCEPT ![i] = e] : e \in BranchEdits(buf[i])} : i \in 1..Len(buf)}
    \cup {SubSeq(buf, 1, i - 1) \o SubSeq(buf, i + 1, Len(buf)) : i \in 1..Len(buf)}
    \cup {Reverse(buf)}

\* the scratch file as written, or one change away
Edited(buf) == {buf} \cup OneEdit(buf)

\* the editor runs and exits: it leaves a scratch file, that parses or not,
\* with the old or a new modification time, and an exit status
Editor(buf, parses, touched, code) ==
    /\ pc = "editor"
    /\ ed' = [ed EXCEPT !.buf = buf, !.parses = parses, !.exit = code,
                        !.newMod = IF touched THEN @ + 1 ELSE @]
    /\ pc' = "edited"
    /\ UNCHANGED <<file, attach, issues, issueIds, issueMap, now, stored, out>>

\* log.Fatal: the process ends, nothing is stored
Abort(err) ==
    /\ pc' = "idle"
    /\ out' = [out EXCEPT !.err = err]
    /\ ed' = NoEdit
    /\ UNCHANGED <<file, attach, issues, issueIds, issueMap, now, stored>>

\* the command goes on to its next check
Pass(to) ==
    /\ pc' = to
    /\ ed' = [ed EXCEPT !.trace = Append(@, to)]
    /\ UNCHANGED <<file, attach, issues, issueIds, issueMap, now, stored, out>>

\* checkErr(ed.Run())
EditCheckRun ==
    /\ pc = "edited"
    /\ IF ed.exit # 0 THEN Abort("editor") ELSE Pass("ran")

\* an edit command that never takes the scratch file for unchanged
UnchangedNever(e) == FALSE

\* newStat.ModTime() == origStat.ModTime()
Unchanged(e) == e.newMod = e.origMod

EditCheckStat ==
    /\ pc = "ran"
    /\ IF Unchanged(ed) THEN Abort("unchanged") ELSE Pass("changed")

EditReparse ==
    /\ pc = "changed"
    /\ IF ~ed.parses THEN Abort("parsing") ELSE Pass("parsed")

\* the top-level branches of the scratch file whose key has the prefix id
Matches(buf, id) == {i \in 1..Len(buf) : IsBranch(buf[i]) /\ HasPrefix(buf[i].key, id)}

\* a scan without the break: the last match it could stamp stays
StopAtLast(good) == Max(good)

\* the scan of the scratch file stops (break) at the first match it could stamp
StopAt(good) == Min(good)

\* a merge that empties a selected issue the scratch file has no branch for
MergeStepClears(tree, ids, map, buf, id, stamp) ==
    LET p == IssueIn(ids, map, id)
        m == Matches(buf, id)
        good == {i \in m : Set(buf[i], kUpdated, stamp).ok}
    IN  IF p = Nil THEN [tree |-> tree, didUpdate |-> FALSE]
        ELSE IF m = {} THEN [tree |-> [tree EXCEPT ![p].kids = << >>], didUpdate |-> FALSE]
        ELSE IF good # {}
        THEN [tree |-> [tree EXCEPT ![p] = Set(buf[StopAt(good)], kUpdated, stamp).issue],
              didUpdate |-> TRUE]
        ELSE [tree |-> [tree EXCEPT ![p] = buf[Max(m)]], didUpdate |-> FALSE]

\* body of the merge loop for one identifier: *issue = *ed, then the stamp
MergeStep(tree, ids, map, buf, id, stamp) ==
    LET p == IssueIn(ids, map, id)
        m == Matches(buf, id)
        good == {i \in m : Set(buf[i], kUpdated, stamp).ok}
    IN  IF p = Nil \/ m = {} THEN [tree |-> tree, didUpdate |-> FALSE]
        ELSE IF good # {}
        THEN [tree |-> [tree EXCEPT ![p] = Set(buf[StopAt(good)], kUpdated, stamp).issue],
              didUpdate |-> TRUE]
        ELSE [tree |-> [tree EXCEPT ![p] = buf[Max(m)]], didUpdate |-> FALSE]

RECURSIVE MergeEach(_, _, _, _, _, _)
MergeEach(tree, ids, map, buf, sel, stamp) ==
    IF sel = << >> THEN [tree |-> tree, didUpdate |-> FALSE]
    ELSE LET one == MergeStep(tree, ids, map, buf, Head(sel), stamp)
             rest == MergeEach(one.tree, ids, map, buf, Tail(sel), stamp)
         IN  [tree |-> rest.tree, didUpdate |-> one.didUpdate \/ rest.didUpdate]

EditMerge ==
    /\ pc = "parsed"
    /\ LET m == MergeEach(issues, issueIds, issueMap, ed.buf, ed.ids, Stamp(now))
       IN  /\ issues' = m.tree
           /\ ed' = [ed EXCEPT !.didUpdate = m.didUpdate, !.trace = Append(@, "merged")]
    /\ pc' = "merged"
    /\ UNCHANGED <<file, attach, issueIds, issueMap, now, stored, out>>

\* an edit command without the commit check
MayStoreAlways(e) == TRUE

\* if !didUpdate { log.Fatalln(...) }
MayStore(e) == e.didUpdate

EditCommit ==
    /\ pc = "merged"
    /\ IF ~MayStore(ed) THEN Abort("noupdate")
       ELSE /\ file' = issues
            /\ stored' = stored + 1
            /\ pc' = "idle"
            /\ ed' = NoEdit
            /\ UNCHANGED <<attach, issues, issueIds, issueMap, now, out>>

SetKeys == {kPriority, <<120>>}
tagA == <<97>>

Next ==
    \/ \E n \in 1..2 : \E q \in Fresh(Ids \ KeysOf(file), n) : NewCmd(q)
    \/ \E key \in SetKeys, sel \in SelSpecs : SetCmd(key, v1, sel)
    \/ \E doAdd \in BOOLEAN, sel \in SelSpecs : TagCmd(doAdd, tagA, sel)
    \/ \E cmd \in {"close", "reopen"}, sel \in SelSpecs : CloseCmd(cmd, sel)
    \/ \E id \in SelArgs : CommentCmd(id, v1)
    \/ \E sel \in SelSpecs : EditStart(sel)
    \/ \E buf \in Edited(ed.buf) : Editor(buf, TRUE, TRUE, 0)
    \/ Editor(ed.buf, TRUE, FALSE, 0)
    \/ Editor(ed.buf, FALSE, TRUE, 0)
    \/ \E touched \in BOOLEAN : Editor(ed.buf, TRUE, touched, 1)
    \/ EditCheckRun
    \/ EditCheckStat
    \/ EditReparse
    \/ EditMerge
    \/ EditCommit

Spec == Init /\ [][Next]_vars

-----------------------------------------------------------------------------
(* Properties of the commands *)

\* C3 as claimed: no step of any command leaves two issues with the same
\* identifier in the backing file, and every issue of the file keeps its
\* identifier.
C3_IdsUniqueImmutable ==
    [][/\ UniqueIds(file')
       /\ \A i \in 1..Len(file) :
            i <= Len(file') /\ file'[i].key = file[i].key]_vars

\* the issue a selected identifier resolves to during an edit command
Resolved(id) == IssueIn(issueIds, issueMap, id)

\* the edit command is past the editor
AfterEditor == pc \in {"edited", "ran", "changed", "parsed", "merged"}

\* nothing was merged and nothing is stored by the step
NoMergeNoStore == file' = file /\ stored' = 0 /\ issues' = file

\* C8 as claimed: when the scratch file has the modification time it had before
\* the editor ran, the edit command ends with the 'unchanged' error, without a
\* merge, without Store and with the backing file as it was.
C8_UnchangedAborts ==
    [][(AfterEditor /\ ed.newMod = ed.origMod) =>
            /\ pc' \in {"ran", "idle"}
            /\ pc' = "idle" => out'.err = "unchanged"
            /\ NoMergeNoStore]_vars

\* C8 amended: when the editor exited successfully and the scratch file has
\* the modification time it had before the editor ran, the edit command ends
\* with the 'unchanged' error; with or without a successful exit there is no
\* merge, no Store, and the backing file is as it was.
C8_UnchangedAbortsAfterRun ==
    [][(AfterEditor /\ ed.newMod = ed.origMod) =>
            /\ pc' \in {"ran", "idle"}
            /\ (pc' = "idle" /\ ed.exit = 0) => out'.err = "unchanged"
            /\ NoMergeNoStore]_vars

C8_Witness ==
    pc = "idle" /\ out.op = "edit" /\ out.err = "unchanged" /\ file # << >>

\* some selected identifier resolves to an issue and a branch of the scratch
\* file with that prefix could be merged and stamped
SomeMerged ==
    \E k \in 1..Len(ed.ids) :
        /\ Resolved(ed.ids[k]) # Nil
        /\ \E i \in Matches(ed.buf, ed.ids[k]) : Set(ed.buf[i], kUpdated, Stamp(now)).ok

\* no selected identifier resolves to an issue with a matching branch
NoneMatched ==
    \A k \in 1..Len(ed.ids) :
        Resolved(ed.ids[k]) = Nil \/ Matches(ed.buf, ed.ids[k]) = {}

\* C9: an edit command calls Store only after the editor exited successfully,
\* then the modification time was found changed, then the scratch file was
\* reparsed, then at least one selected identifier was matched and merged; when
\* the editor fails, the scratch file does not parse or no selected identifier
\* is matched, the command ends without Store and the backing file is as it was.
C9_StoreOnlyAfterChecks ==
    [][pc # "idle" =>
        /\ (stored' # stored \/ file' # file) =>
                /\ ed.trace = <<"ran", "changed", "parsed", "merged">>
                /\ ed.exit = 0 /\ ed.newMod # ed.origMod /\ ed.parses
                /\ SomeMerged
                /\ stored' = 1 /\ file' = issues
        /\ (pc' = "idle" /\ (ed.exit # 0 \/ ~ed.parses \/ NoneMatched)) =>
                stored' = 0 /\ file' = file]_vars

C9_Witness ==
    pc = "idle" /\ out.op = "edit" /\ out.err = "" /\ stored = 1 /\ now > 0

\* the selected identifiers, by position, that resolve to the issue at p and
\* have a matching branch in the scratch file
Deciding(p) ==
    {k \in 1..Len(ed.ids) :
        Resolved(ed.ids[k]) = p /\ Matches(ed.buf, ed.ids[k]) # {}}

\* the first branch of the scratch file whose key has the prefix id
FirstMatch(id) == ed.buf[Min(Matches(ed.buf, id))]

RemoveAt(s, j) == SubSeq(s, 1, j - 1) \o SubSeq(s, j + 1, Len(s))

C11_CollectStamps ==
    pc = "editor" =>
        \A i \in 1..Len(ed.buf) : Get(ed.buf[i], kUpdated).val = Stamp(now)

\* C11 amended: when the editor is launched, every issue of the scratch file is
\* an issue of the backing file as it was loaded, its updated field included,
\* and the tree in memory is the loaded one; the stamp is set by the merge.
C11_CollectWritesAsLoaded ==
    pc = "editor" =>
        /\ issues = file
        /\ \A i \in 1..Len(ed.buf) :
                \E k \in 1..Len(ed.ids) :
                    Resolved(ed.ids[k]) # Nil /\ ed.buf[i] = file[Resolved(ed.ids[k])]

C11_Witness ==
    pc = "editor" /\ ed.buf # << >> /\ Get(ed.buf[1], kUpdated).val # Stamp(now)

-----------------------------------------------------------------------------
(* The tag codec on its own: one issue with any tags string, and calls of  *)
(* ModifyTag on it.                                                        *)

MaxTagLen == 3      \* longest tags string of the issue at the start
MaxTagOps == 2      \* most calls of ModifyTag in a behaviour

tagB == <<98>>
TagArgs == {tagA, tagB}

\* tags strings: tags a and b, spaces anywhere, duplicates, any order
TagStrs == SeqsUpTo({97, 98, chSpace}, MaxTagLen)

\* the children of the issue: with a tags leaf, without one, or none at all
TagKids ==
    {<<NewLeaf(kSummary, v1), NewLeaf(kTags, str), NewLongLeaf(kDescription, v2)>> : str \in TagStrs}
    \cup {<<NewLeaf(kSummary, v1), NewLongLeaf(kDescription, v2)>>, << >>}

TInit ==
    /\ file \in {<<NewBranch(idA, ks)>> : ks \in TagKids}
    /\ attach = NoDirs
    /\ issues = file
    /\ issueIds = IndexIds(file)
    /\ issueMap = IndexMap(file)
    /\ pc = "loaded"
    /\ now = 0
    /\ ed = NoEdit
    /\ stored = 0
    /\ out = NoOut

\* lit.ModifyTag(issue, tag, doAdd) on the issue in memory
TModifyTag(tag, doAdd) ==
    /\ pc = "loaded"
    /\ now < MaxTagOps
    /\ now' = now + 1
    /\ issues' = [issues EXCEPT ![1] = ModifyTag(issues[1], tag, doAdd).issue]
    /\ out' = [NoOut EXCEPT !.op = "tag", !.val = tag, !.flag = doAdd,
                            !.err = IF ModifyTag(issues[1], tag, doAdd).ok THEN "" ELSE "set"]
    /\ UNCHANGED <<file, attach, issueIds, issueMap, pc, ed, stored>>

TNext == \E tag \in TagArgs, doAdd \in BOOLEAN : TModifyTag(tag, doAdd)

SpecTag == TInit /\ [][TNext]_vars

\* the leaf ModifyTag reads and writes: the first one whose key starts with "tag"
HasTagLeaf(issue) == LeafMatches(issue.kids, kTag) # {}

TagVal(issue) == issue.kids[Min(LeafMatches(issue.kids, kTag))].val

\* the tags of a string, as a set
TagsOf(str) == {Fields(str)[i] : i \in 1..Len(Fields(str))}

\* each tag once, ascending, single spaces between, none before or after
Canonical(str) ==
    /\ \A i \in 1..Len(Fields(str)) - 1 : StrLess(Fields(str)[i], Fields(str)[i + 1])
    /\ str = Join(Fields(str), <<chSpace>>)

\* C12: on an issue with a tags leaf, ModifyTag(issue, t, true) leaves the tags
\* of the old string and t, each once, ascending, joined by single spaces and
\* without leading or trailing space; a second add of t changes nothing.
C12_AddIdempotentCanonical ==
    [][(now' = now + 1 /\ out'.flag /\ HasTagLeaf(issues[1])) =>
            /\ HasTagLeaf(issues'[1])
            /\ Canonical(TagVal(issues'[1]))
            /\ TagsOf(TagVal(issues'[1])) = TagsOf(TagVal(issues[1])) \cup {out'.val}
            /\ (out.op = "tag" /\ out.flag /\ out.val = out'.val) => issues' = issues]_vars

\* a second add of the same tag has run, on a string that had other tags
C12_Witness ==
    /\ now = 2 /\ out.op = "tag" /\ out.flag /\ out.val = tagA
    /\ HasTagLeaf(issues[1]) /\ HasTagLeaf(file[1])
    /\ TagVal(issues[1]) = <<97, chSpace, 98>>
    /\ TagVal(file[1]) = <<98, chSpace, 98>>

\* a call ModifyTag(issue, t, false) with t not in the tag set of the issue
DelAbsent ==
    /\ now' = now + 1
    /\ ~out'.flag
    /\ out'.val \notin tagStrToSet(Get(issues[1], kTag).val)

\* C13 as claimed: ModifyTag(issue, t, false) on an issue whose tag set does
\* not hold t leaves the tags value and every other child as they were.
C13_DelAbsentNoOp ==
    [][DelAbsent => issues' = issues]_vars

\* C13 amended: ModifyTag(issue, t, false) on an issue whose tag set does not
\* hold t keeps the tag set and every other child, and rewrites the tags value
\* in canonical form, so the value is as before exactly when it was canonical;
\* an issue with children but without a leaf whose key starts with "tag" gets
\* a new leaf "tag" with an empty value; an issue without children stays as is.
C13_DelAbsentNormalizes ==
    [][DelAbsent =>
        IF HasTagLeaf(issues[1])
        THEN /\ issues'[1] = [issues[1] EXCEPT
                    !.kids[Min(LeafMatches(issues[1].kids, kTag))].val = TagVal(issues'[1])]
             /\ Canonical(TagVal(issues'[1]))
             /\ TagsOf(TagVal(issues'[1])) = TagsOf(TagVal(issues[1]))
             /\ (issues' = issues) <=> Canonical(TagVal(issues[1]))
        ELSE IF issues[1].kids = << >> THEN issues' = issues /\ out'.err = "set"
        ELSE /\ issues'[1].key = issues[1].key
             /\ \E j \in 1..Len(issues'[1].kids) :
                    /\ issues'[1].kids[j] = NewLeaf(kTag, Empty)
                    /\ RemoveAt(issues'[1].kids, j) = issues[1].kids]_vars

\* an absent tag was deleted from a tags string with a leading space
C13_Witness ==
    /\ now = 1 /\ out.op = "tag" /\ ~out.flag /\ out.val = tagA
    /\ HasTagLeaf(file[1]) /\ TagVal(file[1]) = <<chSpace, 98>>
    /\ TagVal(issues[1]) = <<98>>

-----------------------------------------------------------------------------
(* The store as a library: New, Load, NewIssues and Store called in any    *)
(* order by one process, with the failures of the file system.             *)

MaxStoreOps == 3    \* most calls on the store in a behaviour

\* backing files written by earlier processes
StoreFiles ==
    {NewIssues(<< >>, q, Stamp(0)) : q \in UNION {Fresh(Ids, n) : n \in 0..MaxIssues - 1}}

\* lit.New(): the tree is an empty root, nothing is indexed, issueDir is ""
SInit ==
    /\ file \in StoreFiles
    /\ attach = NoDirs
    /\ issues = << >>
    /\ issueIds = << >>
    /\ issueMap = NoMap
    /\ pc = "fresh"
    /\ now = 0
    /\ ed = NoEdit
    /\ stored = 0
    /\ out = NoOut

SCall ==
    /\ now < MaxStoreOps
    /\ now' = now + 1
    /\ UNCHANGED <<attach, ed>>

\* Lit.Load: dirFound says whether issueDir() finds the issue directory above
\* the working directory
SLoad(dirFound) ==
    /\ SCall
    /\ IF dirFound
       THEN /\ issues' = file
            /\ issueIds' = IndexIds(file)
            /\ issueMap' = IndexMap(file)
            /\ pc' = "loaded"
            /\ out' = [NoOut EXCEPT !.op = "load"]
       ELSE /\ out' = [NoOut EXCEPT !.op = "load", !.err = "notfound"]
            /\ UNCHANGED <<issues, issueIds, issueMap, pc>>
    /\ UNCHANGED <<file, stored>>

\* Lit.NewIssues on the tree in memory
SNewIssues(newIds) ==
    /\ SCall
    /\ Len(issues) + Len(newIds) <= MaxIssues
    /\ issues' = NewIssues(issues, newIds, Stamp(now'))
    /\ issueIds' = IndexIds(issues')
    /\ issueMap' = IndexMap(issues')
    /\ out' = [NoOut EXCEPT !.op = "new", !.res = newIds]
    /\ UNCHANGED <<file, pc, stored>>

\* openFile in Store. After a Load the path is absolute and the file is opened
\* (or created) unless the system refuses; before any Load issueDir is "", the
\* path is the relative "issues", and openFile looks for a regular file of
\* that name in the working directory and above it: inIssueDir says whether
\* the working directory is the issue directory, where that file is the
\* backing file. O_TRUNC empties the file that was opened.
Opens(inIssueDir, refused) ==
    IF pc = "loaded" THEN ~refused ELSE inIssueDir /\ ~refused

\* Lit.Store: Write puts written of the top-level nodes into the emptied file
\* and fails if these are not all
SStore(inIssueDir, refused, written) ==
    /\ SCall
    /\ IF ~Opens(inIssueDir, refused)
       THEN /\ out' = [NoOut EXCEPT !.op = "store", !.err = "open"]
            /\ UNCHANGED <<file, stored>>
       ELSE /\ file' = SubSeq(issues, 1, written)
            /\ stored' = stored + 1
            /\ out' = [NoOut EXCEPT !.op = "store",
                                    !.err = IF written < Len(issues) THEN "write" ELSE ""]
    /\ UNCHANGED <<issues, issueIds, issueMap, pc>>

SNext ==
    \/ \E dirFound \in BOOLEAN : SLoad(dirFound)
    \/ \E n \in 1..2 : \E q \in Fresh(Ids \ KeysOf(issues), n) : SNewIssues(q)
    \/ \E inIssueDir \in BOOLEAN, refused \in BOOLEAN, written \in 0..Len(issues) :
            SStore(inIssueDir, refused, written)

SpecStore == SInit /\ [][SNext]_vars

\* C14 as claimed: Store on a store that was constructed and never loaded
\* returns an error and leaves the backing file as it was.
C14_FreshStoreFails ==
    [][(now' = now + 1 /\ out'.op = "store" /\ pc = "fresh") =>
            out'.err # "" /\ file' = file]_vars

\* C15 as claimed: when Store returns an error, the backing file holds what
\* it held before the call.
C15_FailedStoreKeepsFile ==
    [][(now' = now + 1 /\ out'.op = "store" /\ out'.err # "") => file' = file]_vars

-----------------------------------------------------------------------------
(* Close and reopen commands on backing files that earlier commands wrote  *)

\* lit new 2 wrote issues 11 and 12
Pair == NewIssues(<< >>, <<idA, idB>>, Stamp(0))

\* lit edit 12 1 on Pair, the editor saving the scratch file as it was: the
\* merge for the prefix 1 puts the branch 12 of the scratch file into issue 11
Twins ==
    MergeEach(Pair, IndexIds(Pair), IndexMap(Pair),
              Collect(Pair, IndexIds(Pair), IndexMap(Pair), <<idB, <<49>>>>),
              <<idB, <<49>>>>, Stamp(0)).tree

CloseFiles ==
    {NewIssues(<< >>, q, Stamp(0)) : q \in UNION {Fresh(Ids, n) : n \in 1..2}}
    \cup {Twins}

CInit ==
    /\ file \in CloseFiles
    /\ attach = NoDirs
    /\ issues = file
    /\ issueIds = IndexIds(file)
    /\ issueMap = IndexMap(file)
    /\ pc = "idle"
    /\ now = 0
    /\ ed = NoEdit
    /\ stored = 0
    /\ out = NoOut

CNext ==
    \E cmd \in {"close", "reopen"},
       sel \in SelSpecs \cup {Sel("closed", Empty, Empty, << >>)} : CloseCmd(cmd, sel)

SpecClose == CInit /\ [][CNext]_vars

\* the selections "open" and "closed" as the next command reads them
OpenIds == specIds(file, Sel("open", Empty, Empty, << >>))
ClosedIds == specIds(file, Sel("closed", Empty, Empty, << >>))

\* C16 as claimed: an issue with an empty closed field is in the open
\* selection and not in the closed one, an issue with a stamp in the closed
\* field is in the closed selection and not in the open one, before and after
\* every close and reopen command; the two selections are disjoint and
\* together hold all issues.
C16_OpenClosedPartition ==
    /\ \A i \in 1..Len(file) :
            IF Get(file[i], kClosed).val = Empty
            THEN file[i].key \in Range(OpenIds) /\ file[i].key \notin Range(ClosedIds)
            ELSE file[i].key \in Range(ClosedIds) /\ file[i].key \notin Range(OpenIds)
    /\ Range(OpenIds) \cap Range(ClosedIds) = {}
    /\ Range(OpenIds) \cup Range(ClosedIds) = KeysOf(file)

-----------------------------------------------------------------------------
(* More properties of the queries *)

\* the issues of the tree in memory whose leaf for key has a value
Valued(key) == {i \in IssuePos : Get(issues[i], key).ok /\ Get(issues[i], key).val # Empty}

KeysAt(S) == {issues[i].key : i \in S}

\* C17: for an ordinary field f, Match(f, "", true) returns exactly the issues
\* with a non-empty f value, Match(f, "", false) exactly those whose f value is
\* empty or missing; an empty value is never matched by the empty query.
C17_EmptyQuery ==
    (out.op = "match" /\ Ordinary(out.key) /\ out.val = Empty) =>
        /\ Range(out.res) = KeysAt(IF out.flag THEN Valued(out.key)
                                   ELSE IssuePos \ Valued(out.key))
        /\ \A k \in Range(out.res) : Count(out.res, k) = 1

\* the empty query ran on issues with an empty, a missing and a set value
C17_Witness ==
    /\ out.op = "match" /\ out.key = kPriority /\ out.val = Empty /\ out.flag
    /\ Valued(kPriority) # {}
    /\ \E i \in IssuePos : Get(issues[i], kPriority).ok /\ Get(issues[i], kPriority).val = Empty
    /\ \E i \in IssuePos : ~Get(issues[i], kPriority).ok

\* strings.Contains
Contains(str, sub) ==
    \E o \in 0..(Len(str) - Len(sub)) : \A i \in 1..Len(sub) : sub[i] = str[o + i]

\* the issues whose value for key holds val as a literal substring
Holding(key, val) == {i \in IssuePos : Get(issues[i], key).ok /\ Contains(Get(issues[i], key).val, val)}

Meta == {chDot, chParen}

CommentsAt(i) == {c \in 1..Len(issues[i].kids) : IsBranch(issues[i].kids[c])}

\* the comment has a text that holds val as a literal substring
BodyHolds(comment, val) ==
    \E j \in 1..Len(comment.kids) :
        IsLeaf(comment.kids[j]) /\ Contains(comment.kids[j].val, val)

\* C19 as claimed: Match("comment", v, true) returns only issues with at least
\* one comment whose body holds v.
C19_CommentBodyOnly ==
    (out.op = "match" /\ out.key = kComment /\ out.flag) =>
        \A i \in IssuePos :
            issues[i].key \in Range(out.res) =>
                \E c \in CommentsAt(i) : BodyHolds(issues[i].kids[c], out.val)

\* C19 amended: for a v without metacharacters, Match("comment", v, true)
\* returns exactly the issues with at least one comment whose key (the stamp
\* of the comment) or whose body holds v.
C19_CommentKeyOrBody ==
    (out.op = "match" /\ out.key = kComment /\ out.flag /\ Range(out.val) \cap Meta = {}) =>
        \A i \in IssuePos :
            issues[i].key \in Range(out.res) <=>
                \E c \in CommentsAt(i) :
                    \/ Contains(issues[i].kids[c].key, out.val)
                    \/ BodyHolds(issues[i].kids[c], out.val)

\* an issue was returned for the stamp of its comment, not for its text
C19_Witness ==
    /\ out.op = "match" /\ out.key = kComment /\ out.flag /\ out.val = v2
    /\ \E i \in IssuePos :
            /\ issues[i].key \in Range(out.res)
            /\ \A c \in CommentsAt(i) : ~BodyHolds(issues[i].kids[c], v2)

\* query values that strconv.Atoi rejects
NotNumbers == {<<chDot>>, <<chParen>>}

\* C20 as claimed: Compare("attach", v, less) with a v that is no integer
\* returns no issue, Compare("attach", v, greater) returns every issue.
C20_AttachNoNumber ==
    (out.op = "compare" /\ out.key = kAttach /\ out.val \in NotNumbers) =>
        IF out.flag THEN out.res = << >>
        ELSE Range(out.res) = KeysAt(IssuePos)

\* C20 amended: Compare("attach", v, ...) with a v that is no integer returns
\* no issue, on a less query and on a greater query alike.
C20_AttachNoNumberNoMatch ==
    (out.op = "compare" /\ out.key = kAttach /\ out.val \in NotNumbers) =>
        out.res = << >>

\* a greater query with a v that is no number ran on a tree with an issue
\* that has attachments
C20_Witness ==
    /\ out.op = "compare" /\ out.key = kAttach /\ out.val = <<chDot>> /\ ~out.flag
    /\ \E i \in IssuePos : Attachments(issues[i]) # {}
    /\ out.res = << >>

-----------------------------------------------------------------------------
(* More properties of the commands *)

BulkOps == {"set", "tag", "close", "reopen"}

\* the issue of the backing file that id resolves to when the file is loaded
ResolvedIn(tree, id) == IssueIn(IndexIds(tree), IndexMap(tree), id)

\* the field the command was to change has the value the command gives it
FieldChanged(issue, o, stamp) ==
    CASE o.op = "set" -> Get(issue, o.key) = [val |-> o.val, ok |-> TRUE]
      [] o.op = "tag" -> (o.val \in TagsOf(Get(issue, kTag).val)) <=> o.flag
      [] o.op = "close" -> Get(issue, kClosed) = [val |-> stamp, ok |-> TRUE]
      [] o.op = "reopen" -> Get(issue, kClosed) = [val |-> Empty, ok |-> TRUE]

-----------------------------------------------------------------------------
(* The field accessor on its own: one issue with any children, and calls   *)
(* of Get and Set on it.                                                   *)

MaxKids == 3        \* most children of the issue at the start
MaxFieldOps == 2    \* most calls of Get and Set in a behaviour

\* children: two leaves and a comment whose keys start with "p", a long leaf
\* and a text line
FieldNodes ==
    {NewLeaf(kPriority, v1), NewLeaf(<<112>>, v2), NewBranch(<<112, 114>>, <<NewText(v1)>>),
     NewLongLeaf(kDescription, v2), NewText(v1)}

FieldKeys == {<<112>>, kPriority, <<112, 114>>, <<120>>, Empty}
FieldVals == {v3, Empty}

FInit ==
    /\ file \in {<<NewBranch(idA, ks)>> : ks \in SeqsUpTo(FieldNodes, MaxKids)}
    /\ attach = NoDirs
    /\ issues = file
    /\ issueIds = IndexIds(file)
    /\ issueMap = IndexMap(file)
    /\ pc = "loaded"
    /\ now = 0
    /\ ed = NoEdit
    /\ stored = 0
    /\ out = NoOut

\* lit.Get(issue, key) on the issue in memory
FGet(key) ==
    /\ pc = "loaded"
    /\ now < MaxFieldOps
    /\ now' = now + 1
    /\ out' = [NoOut EXCEPT !.op = "get", !.key = key, !.val = Get(issues[1], key).val,
                            !.flag = Get(issues[1], key).ok]
    /\ UNCHANGED <<file, attach, issues, issueIds, issueMap, pc, ed, stored>>

\* lit.Set(issue, key, val) on the issue in memory
FSet(key, val) ==
    /\ pc = "loaded"
    /\ now < MaxFieldOps
    /\ now' = now + 1
    /\ issues' = [issues EXCEPT ![1] = Set(issues[1], key, val).issue]
    /\ out' = [NoOut EXCEPT !.op = "set", !.key = key, !.val = val,
                            !.flag = Set(issues[1], key, val).ok]
    /\ UNCHANGED <<file, attach, issueIds, issueMap, pc, ed, stored>>

FNext ==
    \/ \E key \in FieldKeys : FGet(key)
    \/ \E key \in FieldKeys, val \in FieldVals : FSet(key, val)

SpecField == FInit /\ [][FNext]_vars

\* kid i is the first kid, in child order, that is a leaf whose key starts with key
FirstLeaf(ks, key, i) ==
    /\ IsLeaf(ks[i]) /\ HasPrefix(ks[i].key, key)
    /\ \A j \in 1..(i - 1) : ~(IsLeaf(ks[j]) /\ HasPrefix(ks[j].key, key))

\* C22: Get(issue, k) returns the value of the first child that is a leaf whose
\* key has k as a prefix, never that of a branch, and fails when there is none;
\* when Set(issue, k, v) returns true it has written that same leaf, or added a
\* leaf k when there was none, so that a following Get(issue, k) returns
\* (v, true), and every other child of the issue is as it was.
C22_PrefixResolution ==
    [][now' = now + 1 =>
        LET ks == issues[1].kids
            ks2 == issues'[1].kids
            k == out'.key
        IN  /\ out'.op = "get" =>
                IF \E i \in 1..Len(ks) : FirstLeaf(ks, k, i)
                THEN out'.flag /\ \E i \in 1..Len(ks) : FirstLeaf(ks, k, i) /\ out'.val = ks[i].val
                ELSE ~out'.flag /\ out'.val = Empty
            /\ (out'.op = "set" /\ out'.flag) =>
                /\ Get(issues'[1], k) = [val |-> out'.val, ok |-> TRUE]
                /\ IF \E i \in 1..Len(ks) : FirstLeaf(ks, k, i)
                   THEN /\ Len(ks2) = Len(ks)
                        /\ \A i \in 1..Len(ks) :
                            ks2[i] = IF FirstLeaf(ks, k, i)
                                     THEN [ks[i] EXCEPT !.val = out'.val] ELSE ks[i]
                   ELSE \E j \in 1..Len(ks2) :
                            ks2[j] = NewLeaf(k, out'.val) /\ RemoveAt(ks2, j) = ks]_vars

\* Set on the prefix "p" passed over a comment of that prefix and wrote the
\* first of two leaves of that prefix
C22_Witness ==
    /\ out.op = "set" /\ out.flag /\ out.key = <<112>> /\ out.val = v3
    /\ issues[1].kids = <<NewBranch(<<112, 114>>, <<NewText(v1)>>),
                          NewLeaf(kPriority, v3), NewLeaf(<<112>>, v2)>>

-----------------------------------------------------------------------------
(* More properties of the store *)

\* the keys and the types of the children of a new issue, in order
Skeleton ==
    << <<kCreated, "leaf">>, <<kUpdated, "leaf">>, <<kClosed, "leaf">>,
       <<kSummary, "leaf">>, <<kTags, "leaf">>, <<kPriority, "leaf">>,
       <<kAssigned, "leaf">>, <<kDescription, "longleaf">> >>

\* C23: NewIssues appends exactly the new issues at the end of the tree and
\* leaves the issues before them as they were; each new issue has the leaves
\* created, updated, closed, summary, tags, priority, assigned, description in
\* that order, created and updated holding the stamp of the call and closed
\* empty; and Issue(id) resolves each new identifier to its new issue.
C23_NewIssuesAppends ==
    [][(now' = now + 1 /\ out'.op = "new") =>
        LET old == Len(issues)
            n == Len(out'.res)
        IN  /\ Len(issues') = old + n
            /\ SubSeq(issues', 1, old) = issues
            /\ \A i \in 1..n :
                LET b == issues'[old + i]
                IN  /\ IsBranch(b) /\ b.key = out'.res[i]
                    /\ [j \in 1..Len(b.kids) |-> <<b.kids[j].key, b.kids[j].type>>] = Skeleton
                    /\ b.kids[1].val = Stamp(now') /\ b.kids[2].val = b.kids[1].val
                    /\ \A j \in 3..Len(b.kids) : b.kids[j].val = Empty
                    /\ IssueIn(issueIds', issueMap', out'.res[i]) = old + i]_vars

\* two issues were added to a loaded tree of one whose identifier sorts after
\* one of theirs
C23_Witness ==
    /\ out.op = "new" /\ Len(out.res) = 2 /\ Len(issues) = 3
    /\ issues[1] \in {file[i] : i \in 1..Len(file)}
    /\ StrLess(out.res[2], issues[1].key)
    /\ Issue(out.res[2]) = 3

-----------------------------------------------------------------------------
(* Two invocations of the set command on one backing file. Each is its own *)
(* process with its own store, so here issues, issueIds, issueMap and pc   *)
(* hold one value per process; stored names the process that stored last.  *)

Procs == {1, 2}

\* backing files written by lit new
RaceFiles ==
    {NewIssues(<< >>, q, Stamp(0)) : q \in UNION {Fresh(Ids, n) : n \in 1..2}}

\* lit set priority 1 <id> in the first process, lit set summary 2 <id> in the
\* second
RaceOp(p) ==
    IF p = 1 THEN [kind |-> "set", key |-> kPriority, val |-> v1, flag |-> FALSE]
    ELSE [kind |-> "set", key |-> kSummary, val |-> v2, flag |-> FALSE]

RInit ==
    /\ file \in RaceFiles
    /\ attach = NoDirs
    /\ issues = [p \in Procs |-> << >>]
    /\ issueIds = [p \in Procs |-> << >>]
    /\ issueMap = [p \in Procs |-> NoMap]
    /\ pc = [p \in Procs |-> "start"]
    /\ now = 0
    /\ ed = NoEdit
    /\ stored = 0
    /\ out = NoOut

\* loadIssues of process p
RLoad(p) ==
    /\ pc[p] = "start"
    /\ issues' = [issues EXCEPT ![p] = file]
    /\ issueIds' = [issueIds EXCEPT ![p] = IndexIds(file)]
    /\ issueMap' = [issueMap EXCEPT ![p] = IndexMap(file)]
    /\ pc' = [pc EXCEPT ![p] = "loaded"]
    /\ out' = [NoOut EXCEPT !.op = "load"]
    /\ UNCHANGED <<file, attach, now, ed, stored>>

\* the loop of setCmd in process p, on the one identifier id
RMutate(p, id) ==
    /\ pc[p] = "loaded"
    /\ now' = now + 1
    /\ issues' = [issues EXCEPT ![p] =
                    BulkEach(issues[p], issueIds[p], issueMap[p], <<id>>, RaceOp(p), Stamp(now'))]
    /\ pc' = [pc EXCEPT ![p] = "changed"]
    /\ out' = [NoOut EXCEPT !.op = "set", !.ids = <<id>>, !.key = RaceOp(p).key,
                            !.val = RaceOp(p).val]
    /\ UNCHANGED <<file, attach, issueIds, issueMap, ed, stored>>

\* a Store that opens the backing file for appending
RStoreAppend(p) ==
    /\ pc[p] = "changed"
    /\ file' = file \o issues[p]
    /\ stored' = p
    /\ pc' = [pc EXCEPT ![p] = "done"]
    /\ out' = [NoOut EXCEPT !.op = "store"]
    /\ UNCHANGED <<attach, issues, issueIds, issueMap, now, ed>>

\* storeIssues of process p: the backing file is truncated and the tree of the
\* process written into it
RStore(p) ==
    /\ pc[p] = "changed"
    /\ file' = issues[p]
    /\ stored' = p
    /\ pc' = [pc EXCEPT ![p] = "done"]
    /\ out' = [NoOut EXCEPT !.op = "store"]
    /\ UNCHANGED <<attach, issues, issueIds, issueMap, now, ed>>

RNext ==
    \E p \in Procs :
        \/ RLoad(p)
        \/ \E id \in KeysOf(issues[p]) : RMutate(p, id)
        \/ RStore(p)

SpecRace == RInit /\ [][RNext]_vars

\* the tree holds the change that process q makes
HasChange(tree, q) ==
    \E i \in 1..Len(tree) :
        Get(tree[i], RaceOp(q).key) = [val |-> RaceOp(q).val, ok |-> TRUE]

\* C24: nothing serializes two invocations: the process that stored last has
\* put its own tree and nothing else into the backing file, so the change of
\* another process that has stored too, and that the last one did not see when
\* it loaded, is not in the file.
C24_LastWriterWins ==
    \A p \in Procs :
        (stored = p /\ pc[p] = "done") =>
            /\ file = issues[p]
            /\ \A q \in Procs \ {p} :
                (pc[q] = "done" /\ ~HasChange(issues[p], q)) => ~HasChange(file, q)

\* both processes loaded, both changed an issue, the first stored and then
\* the second: the file holds the second's change and not the first's
C24_Witness ==
    /\ pc[1] = "done" /\ pc[2] = "done" /\ stored = 2
    /\ HasChange(issues[1], 1)
    /\ HasChange(file, 2) /\ ~HasChange(file, 1)

-----------------------------------------------------------------------------
(* Properties of Compare *)

\* C25: Compare(f, "", less) and Compare(f, "", greater) return no issue, for
\* every field f, comment and attach included, on every tree.
C25_EmptyCompare ==
    (out.op = "compare" /\ out.val = Empty) => out.res = << >>

\* a greater query with the empty value ran on a tree with an issue that has
\* a priority, on the priority and on the attachments
C25_Witness ==
    /\ out.op = "compare" /\ out.val = Empty /\ ~out.flag
    /\ out.key \in {kPriority, kAttach}
    /\ Valued(kPriority) # {}
    /\ out.res = << >>

\* the issues whose value x for key is non-empty and has x < val (isLess) or
\* val < x (not isLess), bytewise
Beyond(key, val, isLess) ==
    {i \in Valued(key) :
        IF isLess THEN StrLess(Get(issues[i], key).val, val)
        ELSE StrLess(val, Get(issues[i], key).val)}

\* C26: for an ordinary field f and a non-empty v, Compare(f, v, less) returns
\* exactly the issues with a non-empty f value x < v and Compare(f, v, greater)
\* exactly those with a non-empty x > v, in the bytewise order of strings (in
\* which "10" is less than "2"); no issue is in both, one with x = v in neither.
C26_CompareStrict ==
    (out.op = "compare" /\ Ordinary(out.key) /\ out.val # Empty) =>
        LET other == Compare(out.key, out.val, ~out.flag)
        IN  /\ Range(out.res) = KeysAt(Beyond(out.key, out.val, out.flag))
            /\ \A k \in Range(out.res) : Count(out.res, k) = 1
            /\ Range(out.res) \cap Range(other) = {}
            /\ \A i \in IssuePos :
                    Get(issues[i], out.key).val = out.val =>
                        issues[i].key \notin Range(out.res) \cup Range(other)
            /\ StrLess(v10, v2)

\* a less query for "2" on the prefix p returned an issue with the value "10"
\* and one with the value "1" and left out one with the value "3"
C26_Witness ==
    /\ out.op = "compare" /\ out.key = <<112>> /\ out.val = v2 /\ out.flag
    /\ \E i \in IssuePos : Get(issues[i], out.key).val = v10 /\ issues[i].key \in Range(out.res)
    /\ \E i \in IssuePos : Get(issues[i], out.key).val = v1 /\ issues[i].key \in Range(out.res)
    /\ \E i \in IssuePos : Get(issues[i], out.key).val = v3 /\ issues[i].key \notin Range(out.res)

\* the key of the first comment of the issue at i
FirstComment(i) == issues[i].kids[Min(CommentsAt(i))].key

RECURSIVE IsSubSeq(_, _)
IsSubSeq(a, b) ==
    IF a = << >> THEN TRUE
    ELSE IF b = << >> THEN FALSE
    ELSE IF Head(a) = Head(b) /\ IsSubSeq(Tail(a), Tail(b)) THEN TRUE
    ELSE IsSubSeq(a, Tail(b))

\* C28: a call of Match or Compare changes neither the tree nor the index, and
\* its result is IssueIds() with some positions left out: identifiers in tree
\* order, each issue at most once.
C28_QueriesPure ==
    [][out'.op \in {"match", "compare"} =>
        /\ issues' = issues /\ issueIds' = issueIds /\ issueMap' = issueMap
        /\ file' = file
        /\ IsSubSeq(out'.res, IssueIds)]_vars

\* a match and a comparison that returned the first and the last of three
\* issues and not the one between
C28_Witness ==
    /\ out.op \in {"match", "compare"}
    /\ Len(IssueIds) = 3 /\ out.res = <<IssueIds[1], IssueIds[3]>>

-----------------------------------------------------------------------------
(* Properties of the merge of the edit command *)

\* C29 as claimed: in every state of an invocation, after loads, new issues,
\* changes of fields and merges of an edit, Issue(id) returns, for every
\* identifier id that IssueIds() returns, a branch of the tree whose key is id.
C29_IndexConsistent ==
    \A k \in 1..Len(IssueIds) :
        /\ Issue(IssueIds[k]) # Nil
        /\ issues[Issue(IssueIds[k])].key = IssueIds[k]

====
